---- MODULE Spec2Model ----
(***************************************************************************)
(* Model of the LCD 1602 driver of lcd_1602_i2c.cpp (class Lcd).  The      *)
(* driver talks to an HD44780 controller through a PCF8574 I2C expander:   *)
(* every operation is a fixed sequence of one-byte bus writes and blocking *)
(* delays.  The model records those events, in order, as the sequence      *)
(* `trace` (the events of the most recent call), and can attach a model of *)
(* the controller that latches the nibbles on the falling edge of enable.  *)
(***************************************************************************)
EXTENDS Integers, Sequences, FiniteSets, TLC

VARIABLES
    peripheralAddr, \* Lcd::peripheralAddr, the only data member of the class
    call,           \* the most recent call: its name and arguments
    trace,          \* the bus writes and delays the most recent call performed
    entryAddr,      \* peripheralAddr as it was when the most recent call began
    lcd,            \* the attached controller's registers (not driven in Spec)
    nCalls,         \* number of calls made on the attached controller
    busResults      \* what i2c_write_blocking returned to the most recent call,
                    \* one value per write (recorded in SpecBus only)

vars == <<peripheralAddr, call, trace, entryAddr, lcd, nCalls, busResults>>

(***************************************************************************)
(* Bounds of the model.                                                    *)
(***************************************************************************)
\* longest character buffer handed to print, terminator included
MaxBuf == 3
\* setCursor is called with columns -MaxColumn .. MaxColumn-1 around the
\* display width, plus the far columns listed in FarColumns
MaxColumn == 16
\* calls made on the attached controller in SpecLcd
MaxCalls == 3
\* bus writes of one call that fail in SpecBus (or all of them fail)
MaxFails == 1

Byte == 0..255

(***************************************************************************)
(* Integer arithmetic of the C++ source.  uint8_t operands are promoted to *)
(* int; the bitwise operators act on the two's complement pattern (floor   *)
(* division by 2 is the arithmetic right shift, -1 is the all-ones word);  *)
(* a value stored in a uint8_t is reduced modulo 256.                      *)
(***************************************************************************)
RECURSIVE BitAnd(_, _)
BitAnd(a, b) ==
    IF a = 0 \/ b = 0 THEN 0
    ELSE IF a = -1 THEN b
    ELSE IF b = -1 THEN a
    ELSE (a % 2) * (b % 2) + 2 * BitAnd(a \div 2, b \div 2)

RECURSIVE BitOr(_, _)
BitOr(a, b) ==
    IF a = 0 THEN b
    ELSE IF b = 0 THEN a
    ELSE IF a = -1 \/ b = -1 THEN -1
    ELSE (IF a % 2 = 1 \/ b % 2 = 1 THEN 1 ELSE 0) + 2 * BitOr(a \div 2, b \div 2)

\* ~x on an int
BitNot(x) == -x - 1
\* conversion to uint8_t
U8(x) == x % 256

(***************************************************************************)
(* Events.  A bus write is i2c_write_blocking(i2c_default, addr, &val,     *)
(* len, nostop); a delay is sleep_ms(ms); the constructor's bus set-up     *)
(* calls are events too.  All events are records of one shape.             *)
(***************************************************************************)
Write(addr, val, len, nostop) ==
    [kind |-> "write", addr |-> addr, val |-> val, len |-> len, noStop |-> nostop]

Sleep(ms) ==
    [kind |-> "sleep", addr |-> -1, val |-> ms, len |-> 0, noStop |-> FALSE]

Setup(what, pin, val) ==
    [kind |-> what, addr |-> pin, val |-> val, len |-> 0, noStop |-> FALSE]

\* PICO_DEFAULT_I2C_SDA_PIN / PICO_DEFAULT_I2C_SCL_PIN: GPIO 4 and GPIO 5
SDA_PIN == 4
SCL_PIN == 5
I2C_BAUD == 1000000

(***************************************************************************)
(* Lcd::sendByte                                                           *)
(***************************************************************************)
backlight == 8
enable == 4

sendByteStuckEnable(addr, val) ==
    LET val_enabled == U8(BitOr(BitOr(val, backlight), enable))
        val_disabled == U8(BitOr(val, backlight))
    IN  << Write(addr, val_enabled, 1, TRUE), Write(addr, val_disabled, 1, TRUE) >>

sendByteToDefault(addr, val) ==
    LET val_enabled == U8(BitOr(BitOr(val, backlight), enable))
        val_disabled == U8(BitOr(BitAnd(val, BitNot(enable)), backlight))
    IN  << Write(39, val_enabled, 1, TRUE), Write(39, val_disabled, 1, TRUE) >>

sendByteStops(addr, val) ==
    LET val_enabled == U8(BitOr(BitOr(val, backlight), enable))
        val_disabled == U8(BitOr(BitAnd(val, BitNot(enable)), backlight))
    IN  << Write(addr, val_enabled, 1, TRUE), Write(addr, val_disabled, 1, FALSE) >>

sendByte(addr, val) ==
    LET noStop == TRUE
        oneByte == 1
        val_enabled == U8(BitOr(BitOr(val, backlight), enable))
        val_disabled == U8(BitOr(BitAnd(val, BitNot(enable)), backlight))
    IN  << Write(addr, val_enabled, oneByte, noStop),
           Write(addr, val_disabled, oneByte, noStop) >>

(***************************************************************************)
(* Lcd::sendCommand                                                        *)
(***************************************************************************)
cmdRegister == 0

sendCommandSwapped(addr, val) ==
    LET high == U8(BitOr(BitAnd(val, 240), cmdRegister))
        low == U8(BitOr(BitAnd(val * 16, 240), cmdRegister))
    IN  sendByte(addr, low) \o sendByte(addr, high) \o << Sleep(2) >>

sendCommandLowUnshifted(addr, val) ==
    LET high == U8(BitOr(BitAnd(val, 240), cmdRegister))
        low == U8(BitOr(BitAnd(val, 15), cmdRegister))
    IN  sendByte(addr, high) \o sendByte(addr, low) \o << Sleep(2) >>

sendCommandDelayFirst(addr, val) ==
    LET high == U8(BitOr(BitAnd(val, 240), cmdRegister))
        low == U8(BitOr(BitAnd(val * 16, 240), cmdRegister))
    IN  << Sleep(2) >> \o sendByte(addr, high) \o sendByte(addr, low)

sendCommand(addr, val) ==
    LET high == U8(BitOr(BitAnd(val, 240), cmdRegister))
        low == U8(BitOr(BitAnd(val * 16, 240), cmdRegister))
    IN  sendByte(addr, high) \o sendByte(addr, low) \o << Sleep(2) >>

(***************************************************************************)
(* Lcd::sendData                                                           *)
(***************************************************************************)
dataRegister == 1

sendDataAsCommand(addr, val) ==
    LET high == U8(BitOr(BitAnd(val, 240), cmdRegister))
        low == U8(BitOr(BitAnd(val * 16, 240), cmdRegister))
    IN  sendByte(addr, high) \o sendByte(addr, low)

sendDataWithDelay(addr, val) ==
    LET high == U8(BitOr(BitAnd(val, 240), dataRegister))
        low == U8(BitOr(BitAnd(val * 16, 240), dataRegister))
    IN  sendByte(addr, high) \o sendByte(addr, low) \o << Sleep(2) >>

sendDataReadBit(addr, val) ==
    LET high == U8(BitOr(BitAnd(val, 240), 3))
        low == U8(BitOr(BitAnd(val * 16, 240), 3))
    IN  sendByte(addr, high) \o sendByte(addr, low)

sendData(addr, val) ==
    LET high == U8(BitOr(BitAnd(val, 240), dataRegister))
        low == U8(BitOr(BitAnd(val * 16, 240), dataRegister))
    IN  sendByte(addr, high) \o sendByte(addr, low)

(***************************************************************************)
(* Lcd::print.  s points into a buffer of bytes; the loop sends the bytes  *)
(* from position i up to, not including, the first zero byte.              *)
(***************************************************************************)
RECURSIVE printSkipsFirst(_, _, _)
printSkipsFirst(addr, buf, i) ==
    IF buf[i] = 0 THEN << >>
    ELSE (IF i = 1 THEN << >> ELSE sendData(addr, U8(buf[i])))
         \o printSkipsFirst(addr, buf, i + 1)

RECURSIVE print(_, _, _)
print(addr, buf, i) ==
    IF buf[i] = 0 THEN << >>
    ELSE sendData(addr, U8(buf[i])) \o print(addr, buf, i + 1)

(***************************************************************************)
(* Lcd::setCursor                                                          *)
(***************************************************************************)
ROW_1 == 8
ROW_2 == 192

setCursorFallThrough(addr, row, column) ==
    CASE row = 0 -> sendCommand(addr, U8(ROW_1 + column))
                    \o sendCommand(addr, U8(ROW_2 + column))
      [] row = 1 -> sendCommand(addr, U8(ROW_2 + column))
      [] OTHER -> << >>

setCursor(addr, row, column) ==
    CASE row = 0 -> sendCommand(addr, U8(ROW_1 + column))
      [] row = 1 -> sendCommand(addr, U8(ROW_2 + column))
      [] OTHER -> << >>

(***************************************************************************)
(* Lcd::clear                                                              *)
(***************************************************************************)
CLEAR_DISPLAY == 1

clearSendsHome(addr) == sendCommand(addr, U8(CLEAR_DISPLAY + 1))

clear(addr) == sendCommand(addr, U8(CLEAR_DISPLAY))

(***************************************************************************)
(* Lcd::init                                                               *)
(***************************************************************************)
returnHomeInst == 2
functionSetInst == 32
fourBitDL == 0
eightBitDL == 16
twoLineDisplay == 8
oneLineDisplay == 0
fiveByTenDots == 4
fiveByEightDots == 0
displayInst == 8
displayOn == 4
displayOff == 0
cursorOn == 2
cursorOff == 0
blinkOn == 1
blinkOff == 0
entryModeInst == 4
directionIncrement == 2
directionDecrement == 0
displayShiftOn == 1
displayShiftOff == 0
clearDisplayInst == 1

initNoClear(addr) ==
    << Sleep(15) >>
    \o sendCommand(addr, returnHomeInst)
    \o sendCommand(addr, U8(BitOr(BitOr(BitOr(functionSetInst, fourBitDL), twoLineDisplay), fiveByEightDots)))
    \o sendCommand(addr, U8(BitOr(BitOr(BitOr(displayInst, displayOn), cursorOff), blinkOff)))
    \o sendCommand(addr, U8(BitOr(BitOr(entryModeInst, directionIncrement), displayShiftOff)))

initEntryBeforeDisplay(addr) ==
    << Sleep(15) >>
    \o sendCommand(addr, returnHomeInst)
    \o sendCommand(addr, U8(BitOr(BitOr(BitOr(functionSetInst, fourBitDL), twoLineDisplay), fiveByEightDots)))
    \o sendCommand(addr, U8(BitOr(BitOr(entryModeInst, directionIncrement), displayShiftOff)))
    \o sendCommand(addr, U8(BitOr(BitOr(BitOr(displayInst, displayOn), cursorOff), blinkOff)))
    \o sendCommand(addr, clearDisplayInst)

initDelayAfterHome(addr) ==
    sendCommand(addr, returnHomeInst)
    \o << Sleep(15) >>
    \o sendCommand(addr, U8(BitOr(BitOr(BitOr(functionSetInst, fourBitDL), twoLineDisplay), fiveByEightDots)))
    \o sendCommand(addr, U8(BitOr(BitOr(BitOr(displayInst, displayOn), cursorOff), blinkOff)))
    \o sendCommand(addr, U8(BitOr(BitOr(entryModeInst, directionIncrement), displayShiftOff)))
    \o sendCommand(addr, clearDisplayInst)

init(addr) ==
    << Sleep(15) >>
    \o sendCommand(addr, returnHomeInst)
    \o sendCommand(addr, U8(BitOr(BitOr(BitOr(functionSetInst, fourBitDL), twoLineDisplay), fiveByEightDots)))
    \o sendCommand(addr, U8(BitOr(BitOr(BitOr(displayInst, displayOn), cursorOff), blinkOff)))
    \o sendCommand(addr, U8(BitOr(BitOr(entryModeInst, directionIncrement), displayShiftOff)))
    \o sendCommand(addr, clearDisplayInst)

(***************************************************************************)
(* Lcd::Lcd.  The address parameter is a uint8_t stored into the int       *)
(* member; the bus is set up and init() runs once.                         *)
(***************************************************************************)
LcdInitBeforePullUps(addr) ==
    << Setup("i2c_init", -1, I2C_BAUD),
       Setup("gpio_set_function", SDA_PIN, 0),
       Setup("gpio_set_function", SCL_PIN, 0) >>
    \o init(U8(addr))
    \o << Setup("gpio_pull_up", SDA_PIN, 0),
          Setup("gpio_pull_up", SCL_PIN, 0) >>

Lcd(addr) ==
    << Setup("i2c_init", -1, I2C_BAUD),
       Setup("gpio_set_function", SDA_PIN, 0),
       Setup("gpio_set_function", SCL_PIN, 0),
       Setup("gpio_pull_up", SDA_PIN, 0),
       Setup("gpio_pull_up", SCL_PIN, 0) >>
    \o init(U8(addr))

(***************************************************************************)
(* Running a call against the bus.  i2c_write_blocking returns the number  *)
(* of bytes written or a negative error code; sendByte calls it as an      *)
(* expression statement, so the value rets[k] of the k-th write is dropped *)
(* and the statement after it runs whatever it was.  Performed gives the   *)
(* events carried out from event i on, k being the next write.             *)
(***************************************************************************)
RECURSIVE PerformedUntilError(_, _, _, _)
PerformedUntilError(events, rets, i, k) ==
    IF i > Len(events) THEN << >>
    ELSE IF events[i].kind = "write"
         THEN IF rets[k] < 0 THEN << events[i] >>
              ELSE << events[i] >> \o PerformedUntilError(events, rets, i + 1, k + 1)
         ELSE << events[i] >> \o PerformedUntilError(events, rets, i + 1, k)

RECURSIVE Performed(_, _, _, _)
Performed(events, rets, i, k) ==
    IF i > Len(events) THEN << >>
    ELSE IF events[i].kind = "write"
         THEN << events[i] >> \o Performed(events, rets, i + 1, k + 1)
         ELSE << events[i] >> \o Performed(events, rets, i + 1, k)

(***************************************************************************)
(* The HD44780 controller behind the expander (instruction set of the      *)
(* datasheet the source cites; the instruction and flag values are the     *)
(* ones init() names).  Expander pins: P0 = RS, P1 = R/W, P2 = E,          *)
(* P3 = backlight, P4..P7 = DB4..DB7.  The controller latches one nibble   *)
(* on every falling edge of E and, in 4-bit operation, executes one        *)
(* instruction or data write per pair of nibbles.                          *)
(***************************************************************************)
RSBit(b) == b % 2
RWBit(b) == (b \div 2) % 2
EBit(b) == (b \div 4) % 2
BLBit(b) == (b \div 8) % 2
HighNibble(b) == b \div 16

Writes(t) == SelectSeq(t, LAMBDA e : e.kind = "write")

\* the nibbles latched by the falling edges of E among the writes w[i..]
RECURSIVE Latched(_, _)
Latched(w, i) ==
    IF i >= Len(w) THEN << >>
    ELSE IF EBit(w[i].val) = 1 /\ EBit(w[i + 1].val) = 0
         THEN << [rs |-> RSBit(w[i].val), nib |-> HighNibble(w[i].val)] >>
              \o Latched(w, i + 1)
         ELSE Latched(w, i + 1)

\* 4-bit operation: high-order nibble first, then low-order nibble
Paired(l) ==
    [i \in 1..(Len(l) \div 2) |->
        [rs |-> l[2 * i - 1].rs, val |-> l[2 * i - 1].nib * 16 + l[2 * i].nib]]

Space == 32

\* DDRAM and CGRAM are kept sparsely: addresses that hold something else
\* than the cleared value (a space in DDRAM, 0 in CGRAM)
Store(mem, a, v, blank) ==
    IF v = blank THEN [x \in (DOMAIN mem) \ {a} |-> mem[x]]
    ELSE [x \in (DOMAIN mem) \cup {a} |-> IF x = a THEN v ELSE mem[x]]

Empty == [x \in {} |-> 0]

\* address counter after a step in direction id (1 = increment)
StepAC(st, id) ==
    IF st.ram = "CG" THEN (IF id = 1 THEN (st.ac + 1) % 64 ELSE (st.ac + 63) % 64)
    ELSE IF st.N = 1
         THEN (IF id = 1
               THEN (CASE st.ac = 39 -> 64 [] st.ac = 103 -> 0 [] OTHER -> (st.ac + 1) % 128)
               ELSE (CASE st.ac = 64 -> 39 [] st.ac = 0 -> 103 [] OTHER -> (st.ac + 127) % 128))
         ELSE (IF id = 1
               THEN (IF st.ac = 79 THEN 0 ELSE (st.ac + 1) % 128)
               ELSE (IF st.ac = 0 THEN 79 ELSE (st.ac + 127) % 128))

\* display shift position after one shift to the left (dir = 1) or right
StepShift(st, dir) ==
    LET m == IF st.N = 1 THEN 40 ELSE 80
    IN  IF dir = 1 THEN (st.shift + 1) % m ELSE (st.shift + m - 1) % m

Flag(v, mask) == IF BitAnd(v, mask) # 0 THEN 1 ELSE 0

Instruction(st, v) ==
    CASE v >= 128 -> [st EXCEPT !.ac = v - 128, !.ram = "DD"]
      [] v >= 64 /\ v < 128 -> [st EXCEPT !.ac = v - 64, !.ram = "CG"]
      [] v >= functionSetInst /\ v < 64 ->
            [st EXCEPT !.DL = Flag(v, eightBitDL), !.N = Flag(v, twoLineDisplay),
                       !.F = Flag(v, fiveByTenDots)]
      [] v >= 16 /\ v < functionSetInst ->
            IF Flag(v, 8) = 1
            THEN [st EXCEPT !.shift = StepShift(st, 1 - Flag(v, 4))]
            ELSE [st EXCEPT !.ac = StepAC(st, Flag(v, 4))]
      [] v >= displayInst /\ v < 16 ->
            [st EXCEPT !.D = Flag(v, displayOn), !.C = Flag(v, cursorOn),
                       !.B = Flag(v, blinkOn)]
      [] v >= entryModeInst /\ v < displayInst ->
            [st EXCEPT !.ID = Flag(v, directionIncrement), !.S = Flag(v, displayShiftOn)]
      [] v >= returnHomeInst /\ v < entryModeInst ->
            [st EXCEPT !.ac = 0, !.ram = "DD", !.shift = 0]
      [] v = clearDisplayInst ->
            [st EXCEPT !.ddram = Empty, !.ac = 0, !.ram = "DD", !.shift = 0, !.ID = 1]
      [] OTHER -> st

DataWrite(st, v) ==
    LET stored == IF st.ram = "CG"
                  THEN [st EXCEPT !.cgram = Store(st.cgram, st.ac, v, 0)]
                  ELSE [st EXCEPT !.ddram = Store(st.ddram, st.ac, v, Space)]
        moved == [stored EXCEPT !.ac = StepAC(st, st.ID)]
    IN  IF st.S = 1 THEN [moved EXCEPT !.shift = StepShift(st, st.ID)] ELSE moved

Execute(st, b) == IF b.rs = 1 THEN DataWrite(st, b.val) ELSE Instruction(st, b.val)

RECURSIVE ExecuteAll(_, _, _)
ExecuteAll(st, bs, i) ==
    IF i > Len(bs) THEN st ELSE ExecuteAll(Execute(st, bs[i]), bs, i + 1)

\* the controller after the events t of one call
Feed(st, t) == ExecuteAll(st, Paired(Latched(Writes(t), 1)), 1)

\* the controller's registers after its internal power-on reset
PowerOn ==
    [DL |-> 1, N |-> 0, F |-> 0, D |-> 0, C |-> 0, B |-> 0, ID |-> 1, S |-> 0,
     ac |-> 0, ram |-> "DD", shift |-> 0, ddram |-> Empty, cgram |-> Empty]

\* some other state a controller may have been left in by earlier use
Scrambled ==
    [DL |-> 0, N |-> 0, F |-> 1, D |-> 1, C |-> 1, B |-> 1, ID |-> 0, S |-> 1,
     ac |-> 17, ram |-> "CG", shift |-> 3, ddram |-> (5 :> 88), cgram |-> (2 :> 31)]

(***************************************************************************)
(* Arguments the calls are made with.                                      *)
(***************************************************************************)
\* bridge addresses: the default 0x27 and the alternative 0x3F
Addrs == {39, 63}

\* char values: 'A', 'B', a character with bit 7 set read as a signed char
\* (0xE9 is -23), and the terminator
CharVals == {65, 66, -23, 0}

RECURSIVE SeqsUpTo(_, _)
SeqsUpTo(S, n) ==
    IF n = 0 THEN {<< >>}
    ELSE LET shorter == SeqsUpTo(S, n - 1)
         IN  shorter \cup {Append(s, x) : s \in shorter, x \in S}

\* buffers that end in a terminator (they may hold one earlier as well)
Bufs == {Append(s, 0) : s \in SeqsUpTo(CharVals, MaxBuf - 1)}

Rows == -1..2
FarColumns == {24, 40, 56, 120, 247, 248, 300}
Columns == (-MaxColumn..(MaxColumn - 1)) \cup FarColumns

LcdBufs == {<<0>>, <<65, 0>>, <<65, 66, 0>>}
LcdRows == 0..2
LcdColumns == {-3, -1, 0, 5, 12, 16, 24, 56}

(***************************************************************************)
(* The calls.  Every member function of Lcd is public.  A call replaces    *)
(* `trace` by the events it performs; no member function assigns           *)
(* peripheralAddr.  What a member function does depends on the address and *)
(* on its arguments alone, so the events are tabulated per address and     *)
(* argument, from the definitions above.                                   *)
(***************************************************************************)
initEvents == [a \in Addrs |-> init(a)]
sendCommandEvents == [a \in Addrs |-> [v \in Byte |-> sendCommand(a, v)]]
sendDataEvents == [a \in Addrs |-> [v \in Byte |-> sendData(a, v)]]
sendByteEvents == [a \in Addrs |-> [v \in Byte |-> sendByte(a, v)]]
printEvents == [a \in Addrs |-> [b \in Bufs \cup LcdBufs |-> print(a, b, 1)]]
setCursorEvents ==
    [a \in Addrs |-> [r \in Rows \cup LcdRows |->
        [c \in Columns \cup LcdColumns |-> setCursor(a, r, c)]]]
clearEvents == [a \in Addrs |-> clear(a)]

Run(op, x, y, s, events) ==
    /\ call' = [op |-> op, x |-> x, y |-> y, s |-> s]
    /\ trace' = events
    /\ entryAddr' = peripheralAddr
    /\ UNCHANGED peripheralAddr

CallInit ==
    /\ Run("init", 0, 0, << >>, initEvents[U8(peripheralAddr)])
    /\ UNCHANGED <<lcd, nCalls, busResults>>

CallSendCommand ==
    \E v \in Byte :
        /\ Run("sendCommand", v, 0, << >>, sendCommandEvents[U8(peripheralAddr)][v])
        /\ UNCHANGED <<lcd, nCalls, busResults>>

CallSendData ==
    \E v \in Byte :
        /\ Run("sendData", v, 0, << >>, sendDataEvents[U8(peripheralAddr)][v])
        /\ UNCHANGED <<lcd, nCalls, busResults>>

CallSendByte ==
    \E v \in Byte :
        /\ Run("sendByte", v, 0, << >>, sendByteEvents[U8(peripheralAddr)][v])
        /\ UNCHANGED <<lcd, nCalls, busResults>>

CallPrint ==
    \E b \in Bufs :
        /\ Run("print", 0, 0, b, printEvents[U8(peripheralAddr)][b])
        /\ UNCHANGED <<lcd, nCalls, busResults>>

CallSetCursor ==
    \E r \in Rows, c \in Columns :
        /\ Run("setCursor", r, c, << >>, setCursorEvents[U8(peripheralAddr)][r][c])
        /\ UNCHANGED <<lcd, nCalls, busResults>>

CallClear ==
    /\ Run("clear", 0, 0, << >>, clearEvents[U8(peripheralAddr)])
    /\ UNCHANGED <<lcd, nCalls, busResults>>

\* the state after construction, Lcd display(addr); the member's default
\* initializer is 0x27
Init ==
    \E a \in Addrs :
        /\ peripheralAddr = U8(a)
        /\ call = [op |-> "Lcd", x |-> a, y |-> 0, s |-> << >>]
        /\ trace = Lcd(a)
        /\ entryAddr = 39
        /\ lcd = PowerOn
        /\ nCalls = 0
        /\ busResults = << >>

Next ==
    \/ CallInit
    \/ CallSendCommand
    \/ CallSendData
    \/ CallSendByte
    \/ CallPrint
    \/ CallSetCursor
    \/ CallClear

Spec == Init /\ [][Next]_vars

(***************************************************************************)
(* The driver with the controller attached: the calls of the display       *)
(* interface (init, print, setCursor, clear), each followed by the         *)
(* controller executing what the call put on the bus.                      *)
(***************************************************************************)
Attached(events) ==
    /\ nCalls < MaxCalls
    /\ nCalls' = nCalls + 1
    /\ lcd' = Feed(lcd, events)
    /\ UNCHANGED busResults

LcdCallInit ==
    /\ Run("init", 0, 0, << >>, initEvents[U8(peripheralAddr)])
    /\ Attached(trace')

LcdCallPrint ==
    \E b \in LcdBufs :
        /\ Run("print", 0, 0, b, printEvents[U8(peripheralAddr)][b])
        /\ Attached(trace')

LcdCallSetCursor ==
    \E r \in LcdRows, c \in LcdColumns :
        /\ Run("setCursor", r, c, << >>, setCursorEvents[U8(peripheralAddr)][r][c])
        /\ Attached(trace')

LcdCallClear ==
    /\ Run("clear", 0, 0, << >>, clearEvents[U8(peripheralAddr)])
    /\ Attached(trace')

LcdInit ==
    \E a \in Addrs, before \in {PowerOn, Scrambled} :
        /\ peripheralAddr = U8(a)
        /\ call = [op |-> "Lcd", x |-> a, y |-> 0, s |-> << >>]
        /\ trace = Lcd(a)
        /\ entryAddr = 39
        /\ lcd = Feed(before, Lcd(a))
        /\ nCalls = 0
        /\ busResults = << >>

LcdNext ==
    \/ LcdCallInit
    \/ LcdCallPrint
    \/ LcdCallSetCursor
    \/ LcdCallClear

SpecLcd == LcdInit /\ [][LcdNext]_vars

(***************************************************************************)
(* The driver on a bus whose writes may fail: every call is made with the  *)
(* results the bus returns for its writes, successes (1 byte written) and  *)
(* failures (PICO_ERROR_GENERIC) in any arrangement of at most MaxFails    *)
(* failures, or with every write failing.                                  *)
(***************************************************************************)
RECURSIVE FailSets(_, _)
FailSets(n, k) ==
    IF k = 0 THEN {{}}
    ELSE LET fewer == FailSets(n, k - 1)
         IN  fewer \cup {F \cup {i} : F \in fewer, i \in 1..n}

ResultPatterns(n) ==
    {[i \in 1..n |-> IF i \in F THEN -2 ELSE 1] : F \in FailSets(n, MaxFails) \cup {1..n}}

\* results the bus may return to a call whose statements are `events`
ResultsFor(events) == ResultPatterns(Len(Writes(events)))

BusBytes == {1, 165}
BusColumns == {0, 5}

initResults == [a \in Addrs |-> ResultsFor(init(a))]
frameResults == ResultPatterns(2)
byteResults == ResultPatterns(4)
printResults == [b \in LcdBufs |-> ResultsFor(print(39, b, 1))]
setCursorResults == [r \in LcdRows |-> ResultsFor(setCursor(39, r, 0))]

RunBus(op, x, y, s, events, rets) ==
    /\ Run(op, x, y, s, Performed(events, rets, 1, 1))
    /\ busResults' = SubSeq(rets, 1, Len(Writes(trace')))

BusCallInit ==
    \E rets \in initResults[U8(peripheralAddr)] :
        /\ RunBus("init", 0, 0, << >>, initEvents[U8(peripheralAddr)], rets)
        /\ UNCHANGED <<lcd, nCalls>>

BusCallSendCommand ==
    \E v \in BusBytes, rets \in byteResults :
        /\ RunBus("sendCommand", v, 0, << >>, sendCommandEvents[U8(peripheralAddr)][v], rets)
        /\ UNCHANGED <<lcd, nCalls>>

BusCallSendData ==
    \E v \in BusBytes, rets \in byteResults :
        /\ RunBus("sendData", v, 0, << >>, sendDataEvents[U8(peripheralAddr)][v], rets)
        /\ UNCHANGED <<lcd, nCalls>>

BusCallSendByte ==
    \E v \in BusBytes, rets \in frameResults :
        /\ RunBus("sendByte", v, 0, << >>, sendByteEvents[U8(peripheralAddr)][v], rets)
        /\ UNCHANGED <<lcd, nCalls>>

BusCallPrint ==
    \E b \in LcdBufs :
        \E rets \in printResults[b] :
            /\ RunBus("print", 0, 0, b, printEvents[U8(peripheralAddr)][b], rets)
            /\ UNCHANGED <<lcd, nCalls>>

BusCallSetCursor ==
    \E r \in LcdRows, c \in BusColumns :
        \E rets \in setCursorResults[r] :
            /\ RunBus("setCursor", r, c, << >>, setCursorEvents[U8(peripheralAddr)][r][c], rets)
            /\ UNCHANGED <<lcd, nCalls>>

BusCallClear ==
    \E rets \in byteResults :
        /\ RunBus("clear", 0, 0, << >>, clearEvents[U8(peripheralAddr)], rets)
        /\ UNCHANGED <<lcd, nCalls>>

BusInit ==
    \E a \in Addrs :
        \E rets \in initResults[a] :
            /\ peripheralAddr = U8(a)
            /\ call = [op |-> "Lcd", x |-> a, y |-> 0, s |-> << >>]
            /\ trace = Performed(Lcd(a), rets, 1, 1)
            /\ busResults = SubSeq(rets, 1, Len(Writes(trace)))
            /\ entryAddr = 39
            /\ lcd = PowerOn
            /\ nCalls = 0

BusNext ==
    \/ BusCallInit
    \/ BusCallSendCommand
    \/ BusCallSendData
    \/ BusCallSendByte
    \/ BusCallPrint
    \/ BusCallSetCursor
    \/ BusCallClear

SpecBus == BusInit /\ [][BusNext]_vars

(***************************************************************************)
(* What the bus shows of the most recent call.                             *)
(***************************************************************************)
BusWrites == Writes(trace)
Delays == SelectSeq(trace, LAMBDA e : e.kind = "sleep")
\* the nibbles the controller latches, and the bytes they pair up to
Nibbles == Latched(BusWrites, 1)
Decoded == Paired(Nibbles)
\* number of characters of the C string that starts a buffer
StrLen(b) == CHOOSE n \in 0..(Len(b) - 1) : b[n + 1] = 0 /\ \A j \in 1..n : b[j] # 0

(***************************************************************************)
(* C1.  For every byte v, sendCommand(v) makes exactly four bus writes     *)
(* forming two frames: the first frame carries bits 7-4 of v in bits 7-4,  *)
(* the second carries bits 3-0 of v (the high nibble of (v << 4) mod 256)  *)
(* in bits 7-4, and the register-select bit is 0 in all four writes.       *)
(***************************************************************************)
C1_SendCommandFrames ==
    call.op = "sendCommand" =>
        LET v == call.x
            w == BusWrites
        IN  /\ Len(w) = 4
            /\ Len(Nibbles) = 2
            /\ HighNibble(w[1].val) = v \div 16
            /\ HighNibble(w[2].val) = v \div 16
            /\ HighNibble(w[3].val) = ((v * 16) % 256) \div 16
            /\ HighNibble(w[4].val) = ((v * 16) % 256) \div 16
            /\ \A i \in 1..4 : RSBit(w[i].val) = 0

C1_Witness ==
    /\ call.op = "sendCommand"
    /\ call.x = 165
    /\ Len(BusWrites) = 4

(***************************************************************************)
(* C2.  For every byte v, sendData(v) makes exactly four bus writes        *)
(* forming two frames, high nibble of v first and low nibble of v second,  *)
(* each in bits 7-4, and the register-select bit is 1 in all four writes.  *)
(***************************************************************************)
C2_SendDataFrames ==
    call.op = "sendData" =>
        LET v == call.x
            w == BusWrites
        IN  /\ Len(w) = 4
            /\ Len(Nibbles) = 2
            /\ HighNibble(w[1].val) = v \div 16
            /\ HighNibble(w[2].val) = v \div 16
            /\ HighNibble(w[3].val) = v % 16
            /\ HighNibble(w[4].val) = v % 16
            /\ \A i \in 1..4 : RSBit(w[i].val) = 1

C2_Witness ==
    /\ call.op = "sendData"
    /\ call.x = 90
    /\ Len(BusWrites) = 4

(***************************************************************************)
(* C3.  Whatever call was made, its bus writes come in consecutive pairs:  *)
(* the first write of a pair has the enable bit (0x04) set, the second has *)
(* it cleared, and both have the backlight bit (0x08) set.                 *)
(***************************************************************************)
C3_EnablePulsePairs ==
    LET w == BusWrites
    IN  /\ Len(w) % 2 = 0
        /\ \A i \in 1..(Len(w) \div 2) :
              /\ EBit(w[2 * i - 1].val) = 1
              /\ EBit(w[2 * i].val) = 0
              /\ BLBit(w[2 * i - 1].val) = 1
              /\ BLBit(w[2 * i].val) = 1

\* sendByte called with a value that has the enable bit set and the
\* backlight bit clear
C3_Witness ==
    /\ call.op = "sendByte"
    /\ call.x = 247
    /\ Len(BusWrites) = 2

(***************************************************************************)
(* C4.  setCursor(0, c) emits exactly one command, the byte (0x08 + c) mod *)
(* 256; setCursor(1, c) emits exactly one command, the byte (0xC0 + c) mod *)
(* 256; setCursor(r, c) with r outside {0, 1} performs no bus write and no *)
(* delay.                                                                  *)
(***************************************************************************)
C4_SetCursorCommand ==
    call.op = "setCursor" =>
        LET r == call.x
            c == call.y
        IN  /\ r = 0 => /\ Decoded = << [rs |-> 0, val |-> (8 + c) % 256] >>
                        /\ Len(BusWrites) = 4
                        /\ Len(Delays) = 1
            /\ r = 1 => /\ Decoded = << [rs |-> 0, val |-> (192 + c) % 256] >>
                        /\ Len(BusWrites) = 4
                        /\ Len(Delays) = 1
            /\ r \notin {0, 1} => trace = << >>

\* a column that makes the sum wrap around 256, on row 0
C4_Witness ==
    /\ call.op = "setCursor"
    /\ call.x = 0
    /\ call.y = 248
    /\ Len(BusWrites) = 4

(***************************************************************************)
(* C5.  For row 0 or 1 and a column of the display (0..15) the command     *)
(* setCursor issues is a set-DDRAM-address instruction: bit 0x80 of the    *)
(* command byte is set.                                                    *)
(***************************************************************************)
C5_SetCursorIsSetDdramAddress ==
    (call.op = "setCursor" /\ call.x \in {0, 1} /\ call.y \in 0..15) =>
        /\ Len(Decoded) = 1
        /\ Decoded[1].rs = 0
        /\ Decoded[1].val >= 128

(***************************************************************************)
(* C6.  init() emits exactly five commands and nothing else on the bus, in *)
(* this order: return-home 0x02, function-set 0x28, display-control 0x0C,  *)
(* entry-mode-set 0x06, clear-display 0x01, each as a high-nibble frame    *)
(* followed by a low-nibble frame.                                         *)
(***************************************************************************)
C6_InitSequence ==
    call.op = "init" =>
        /\ Len(BusWrites) = 20
        /\ Nibbles = [i \in 1..10 |->
                        [rs |-> 0, nib |-> << 0, 2, 2, 8, 0, 12, 0, 6, 0, 1 >>[i]]]
        /\ Decoded = [i \in 1..5 |-> [rs |-> 0, val |-> << 2, 40, 12, 6, 1 >>[i]]]

C6_Witness ==
    /\ call.op = "init"
    /\ Len(Decoded) = 5

(***************************************************************************)
(* C7.  For a string of n non-zero characters followed by its terminator,  *)
(* print emits exactly n data writes, one per character in string order    *)
(* (2n frames, high nibble then low nibble of each character), and nothing *)
(* for the empty string; print("AB") emits the four data frames 4, 1, 4, 2.*)
(***************************************************************************)
C7_PrintData ==
    call.op = "print" =>
        LET n == StrLen(call.s)
        IN  /\ Len(BusWrites) = 4 * n
            /\ Len(Nibbles) = 2 * n
            /\ Decoded = [i \in 1..n |-> [rs |-> 1, val |-> call.s[i] % 256]]
            /\ n = 0 => trace = << >>
            /\ call.s = << 65, 66, 0 >> =>
                  Nibbles = [i \in 1..4 |-> [rs |-> 1, nib |-> << 4, 1, 4, 2 >>[i]]]

C7_Witness ==
    /\ call.op = "print"
    /\ call.s = << 65, 66, 0 >>
    /\ Len(BusWrites) = 8

(***************************************************************************)
(* C8.  For every byte v, (bits 7-4 of the first frame) | (bits 7-4 of the *)
(* second frame >> 4) of the two frames sendCommand(v) emits is v again,   *)
(* and likewise for the two frames sendData(v) emits.                      *)
(***************************************************************************)
C8_RoundTrip ==
    call.op \in {"sendCommand", "sendData"} =>
        LET w == BusWrites
        IN  /\ Len(w) = 4
            /\ BitOr(BitAnd(w[1].val, 240), BitAnd(w[3].val, 240) \div 16) = call.x
            /\ BitOr(BitAnd(w[2].val, 240), BitAnd(w[4].val, 240) \div 16) = call.x

C8_Witness ==
    /\ call.op = "sendData"
    /\ call.x = 195
    /\ BusWrites[3].val \div 16 = 3

(***************************************************************************)
(* C9.  clear() emits exactly one clear-display command (0x01) followed by *)
(* its settling delay, whatever came before; a clear() that follows a      *)
(* clear() therefore emits the same writes and delays again, and leaves    *)
(* the driver's state as it was before the first of the two.               *)
(***************************************************************************)
ClearEvents(t) ==
    /\ Len(t) = 5
    /\ \A i \in 1..4 : t[i].kind = "write"
    /\ t[5].kind = "sleep" /\ t[5].val >= 2
    /\ Paired(Latched(Writes(t), 1)) = << [rs |-> 0, val |-> 1] >>

C9_ClearIdempotent ==
    [][call'.op = "clear" =>
          /\ ClearEvents(trace')
          /\ peripheralAddr' = peripheralAddr
          /\ call.op = "clear" => (trace' = trace /\ peripheralAddr' = entryAddr)]_vars

C9_Witness ==
    /\ call.op = "clear"
    /\ Len(trace) = 5
    /\ entryAddr = peripheralAddr

(***************************************************************************)
(* C10.  On a controller that executes the nibble pairs as HD44780         *)
(* instructions in 4-bit operation, init() called after any sequence of    *)
(* print, setCursor, clear and init leaves the controller in one and the   *)
(* same state: 4-bit interface, two lines, 5x8 font, display on, cursor    *)
(* off, blink off, increment entry, no shift, display cleared, cursor at   *)
(* the origin.                                                             *)
(***************************************************************************)
AfterReset(st) ==
    /\ st.DL = 0 /\ st.N = 1 /\ st.F = 0
    /\ st.D = 1 /\ st.C = 0 /\ st.B = 0
    /\ st.ID = 1 /\ st.S = 0
    /\ st.ddram = Empty /\ st.shift = 0
    /\ st.ac = 0 /\ st.ram = "DD"

C10_InitResets == call.op \in {"init", "Lcd"} => AfterReset(lcd)

\* an init made after the earlier calls changed the character generator RAM
C10_Witness ==
    /\ call.op = "init"
    /\ nCalls = 3
    /\ lcd.cgram # Empty
    /\ AfterReset(lcd)

(***************************************************************************)
(* C11.  Whatever the bus writes return, a call attempts the writes and    *)
(* performs the delays of the run in which every write succeeds, in the    *)
(* same order, to the end: a failed write stops nothing and is followed by *)
(* the statements that follow a successful one.                            *)
(***************************************************************************)
\* the events of the call when every write succeeds
AllSuccessRun ==
    LET a == U8(peripheralAddr)
    IN  CASE call.op = "Lcd" -> Lcd(call.x)
          [] call.op = "init" -> init(a)
          [] call.op = "sendCommand" -> sendCommand(a, call.x)
          [] call.op = "sendData" -> sendData(a, call.x)
          [] call.op = "sendByte" -> sendByte(a, call.x)
          [] call.op = "print" -> print(a, call.s, 1)
          [] call.op = "setCursor" -> setCursor(a, call.x, call.y)
          [] call.op = "clear" -> clear(a)

C11_FailuresIgnored ==
    /\ trace = AllSuccessRun
    /\ Len(busResults) = Len(BusWrites)

\* an init whose first write failed and which still made all twenty writes
C11_Witness ==
    /\ call.op = "init"
    /\ busResults[1] < 0
    /\ Len(BusWrites) = 20
    /\ trace[Len(trace)].kind = "sleep"

(***************************************************************************)
(* C12.  No call changes the peripheral address given to the constructor,  *)
(* and every bus write of every call, the constructor's included, is       *)
(* addressed to exactly that address.                                      *)
(***************************************************************************)
WritesAddressed == \A i \in 1..Len(BusWrites) : BusWrites[i].addr = peripheralAddr

C12_AddressFixed ==
    /\ []WritesAddressed
    /\ [][peripheralAddr' = peripheralAddr /\ entryAddr' = peripheralAddr]_vars

\* a driver constructed with the non-default address, after a print
C12_Witness ==
    /\ peripheralAddr = 63
    /\ call.op = "print"
    /\ Len(BusWrites) = 8
    /\ BusWrites[8].addr = 63

(***************************************************************************)
(* C13.  Every init() starts with a delay of at least 15 ms: init's first  *)
(* event is that delay, and in the constructor no bus write at all comes   *)
(* before it.                                                              *)
(***************************************************************************)
C13_InitDelayFirst ==
    /\ call.op = "init" =>
          /\ Len(trace) > 1
          /\ trace[1].kind = "sleep" /\ trace[1].val >= 15
    /\ call.op = "Lcd" =>
          \E i \in 1..Len(trace) :
              /\ trace[i].kind = "sleep" /\ trace[i].val >= 15
              /\ \A j \in 1..(i - 1) : trace[j].kind \notin {"write", "sleep"}

C13_Witness ==
    /\ call.op = "init"
    /\ trace[1].val = 15
    /\ trace[2].kind = "write"

(***************************************************************************)
(* C14.  Every command (of sendCommand, init, setCursor, clear and the     *)
(* constructor) is followed by a delay of at least 2 ms that comes right   *)
(* after its second frame, before any later bus write, and there is no     *)
(* delay between its high-nibble frame and its low-nibble frame.           *)
(***************************************************************************)
\* the positions of the bus writes in the events t
WritePositions(t) ==
    SelectSeq([i \in 1..Len(t) |-> i], LAMBDA i : t[i].kind = "write")

C14_CommandDelay ==
    call.op \in {"sendCommand", "init", "setCursor", "clear", "Lcd"} =>
        LET p == WritePositions(trace)
        IN  /\ Len(p) % 4 = 0
            /\ \A m \in 1..(Len(p) \div 4) :
                  /\ p[4 * m] = p[4 * m - 3] + 3
                  /\ p[4 * m] < Len(trace)
                  /\ trace[p[4 * m] + 1].kind = "sleep"
                  /\ trace[p[4 * m] + 1].val >= 2

C14_Witness ==
    /\ call.op = "setCursor"
    /\ call.x = 1
    /\ Len(trace) = 5
    /\ trace[5].kind = "sleep"

(***************************************************************************)
(* C15.  sendData performs no delay: sendData(v) is exactly four bus       *)
(* writes, and print of n characters is 4n consecutive bus writes with no  *)
(* delay between or after them.                                            *)
(***************************************************************************)
C15_DataNoDelay ==
    /\ call.op = "sendData" =>
          /\ Len(trace) = 4
          /\ \A i \in 1..4 : trace[i].kind = "write"
    /\ call.op = "print" =>
          /\ Len(trace) = 4 * StrLen(call.s)
          /\ \A i \in 1..Len(trace) : trace[i].kind = "write"

C15_Witness ==
    /\ call.op = "print"
    /\ StrLen(call.s) = 2
    /\ Len(trace) = 8
    /\ Delays = << >>

(***************************************************************************)
(* C16.  In every frame the data nibble and the register-select bit are on *)
(* the bus before enable rises: the bus write that raises enable has the   *)
(* bits 7-4 and bit 0 of the enable-low write before it, and they are the  *)
(* same when enable falls.                                                 *)
(***************************************************************************)
C16_StableBeforeEnable ==
    LET w == BusWrites
    IN  \A i \in 2..Len(w) :
            /\ (EBit(w[i - 1].val) = 0 /\ EBit(w[i].val) = 1) =>
                  /\ HighNibble(w[i].val) = HighNibble(w[i - 1].val)
                  /\ RSBit(w[i].val) = RSBit(w[i - 1].val)
            /\ (EBit(w[i - 1].val) = 1 /\ EBit(w[i].val) = 0) =>
                  /\ HighNibble(w[i].val) = HighNibble(w[i - 1].val)
                  /\ RSBit(w[i].val) = RSBit(w[i - 1].val)

(***************************************************************************)
(* C17.  Every bus write of every call is a write of one byte made with    *)
(* the no-stop flag true.                                                  *)
(***************************************************************************)
C17_OneByteNoStop ==
    \A i \in 1..Len(BusWrites) :
        /\ BusWrites[i].len = 1
        /\ BusWrites[i].noStop = TRUE

C17_Witness ==
    /\ call.op = "clear"
    /\ Len(BusWrites) = 4
    /\ BusWrites[4].noStop = TRUE

(***************************************************************************)
(* C18.  No print, clear or setCursor(row, column) with row in {0, 1} and  *)
(* column in 0..15 emits a command that is an entry-mode-set,              *)
(* display-control, cursor/display-shift or function-set instruction       *)
(* (0x04..0x3F).                                                           *)
(***************************************************************************)
C18_ConfigOnlyByInit ==
    (\/ call.op \in {"print", "clear"}
     \/ (call.op = "setCursor" /\ call.x \in {0, 1} /\ call.y \in 0..15)) =>
        \A i \in 1..Len(Decoded) :
            Decoded[i].rs = 0 =>
                (Decoded[i].val < entryModeInst \/ Decoded[i].val >= 2 * functionSetInst)

(***************************************************************************)
(* C19.  In every byte any call writes to the bus the read/write bit       *)
(* (0x02) is 0, and the two writes of a frame pair are the same in every   *)
(* bit but the enable bit (0x04).                                          *)
(***************************************************************************)
PairsDifferInEnableOnly ==
    \A i \in 1..(Len(BusWrites) \div 2) :
        BitAnd(BusWrites[2 * i - 1].val, 251) = BitAnd(BusWrites[2 * i].val, 251)

C19_WriteOnly ==
    /\ \A i \in 1..Len(BusWrites) : RWBit(BusWrites[i].val) = 0
    /\ PairsDifferInEnableOnly

(***************************************************************************)
(* C19, amended.  In every byte written by the constructor, init,          *)
(* sendCommand, sendData, print, setCursor or clear the read/write bit is  *)
(* 0; sendByte called on its own puts bit 1 of its argument on the bus.    *)
(* In every call the two writes of a frame pair are the same in every bit  *)
(* but the enable bit.                                                     *)
(***************************************************************************)
C19_WriteOnlyAbove ==
    /\ call.op # "sendByte" => \A i \in 1..Len(BusWrites) : RWBit(BusWrites[i].val) = 0
    /\ call.op = "sendByte" =>
          \A i \in 1..Len(BusWrites) : RWBit(BusWrites[i].val) = RWBit(call.x)
    /\ PairsDifferInEnableOnly

C19_Witness ==
    /\ call.op = "sendData"
    /\ call.x = 255
    /\ BusWrites[1].val = 253
    /\ BusWrites[2].val = 249

(***************************************************************************)
(* C20.  The constructor initialises the bus clock, sets both lines to the *)
(* bus function and enables both pull-ups before any bus write, then runs  *)
(* init once: after construction the bus has seen the 15 ms delay and the  *)
(* five init commands, each with its delay, and nothing else.              *)
(***************************************************************************)
C20_Construction ==
    call.op = "Lcd" =>
        LET rest == SubSeq(trace, 6, Len(trace))
        IN  /\ Len(trace) >= 6
            /\ trace[1].kind = "i2c_init"
            /\ trace[2].kind = "gpio_set_function" /\ trace[3].kind = "gpio_set_function"
            /\ {trace[2].addr, trace[3].addr} = {SDA_PIN, SCL_PIN}
            /\ trace[4].kind = "gpio_pull_up" /\ trace[5].kind = "gpio_pull_up"
            /\ {trace[4].addr, trace[5].addr} = {SDA_PIN, SCL_PIN}
            /\ \A i \in 1..Len(rest) : rest[i].kind \in {"write", "sleep"}
            /\ rest[1].kind = "sleep" /\ rest[1].val = 15
            /\ Len(Writes(rest)) = 20
            /\ Len(rest) = 26
            /\ Paired(Latched(Writes(rest), 1)) =
                  [i \in 1..5 |-> [rs |-> 0, val |-> << 2, 40, 12, 6, 1 >>[i]]]
            /\ rest = init(peripheralAddr)

C20_Witness ==
    /\ call.op = "Lcd"
    /\ peripheralAddr = 63
    /\ Len(trace) = 31
    /\ trace[6].kind = "sleep"

====
